---- MODULE Spec2Model ----
(***************************************************************************)
(* Model of src/server/index.js: the POST /translate handler, the Gemini   *)
(* refinement adapter (refineWithGemini / refineOriginalText), the static  *)
(* language table, and the MyMemory detection and translation calls.       *)
(*                                                                         *)
(* One request is followed from arrival to response.  Every action is one  *)
(* run-to-completion piece of the async handler: it starts where a promise *)
(* settles (or the request arrives, or the abort timer fires) and runs to  *)
(* the next await or to the response.                                      *)
(*                                                                         *)
(* Texts are sequences of characters so that String.prototype.trim and     *)
(* encodeURIComponent are computed; language names and provider fields are *)
(* atomic strings.                                                         *)
(***************************************************************************)
EXTENDS Integers, Sequences, FiniteSets, TLC

\* Longest request text / candidate text enumerated.
MaxLen == 2

\* JavaScript values that are not strings, for fields held as atomic strings.
Undefined == "<undefined>"
Null == "<null>"
Number == "<number>"

\* The characters texts are built from: a whitespace and a letter.  Texts are
\* well-formed strings: encodeURIComponent throws on none of them.
Chars == {" ", "a"}

Texts == UNION {[1..n -> Chars] : n \in 0..MaxLen}

\* A JSON value met where a text is expected (req.body.text, candidate text).
JsUndefined == [k |-> "undefined", s |-> <<>>]
JsNull == [k |-> "null", s |-> <<>>]
JsNumber == [k |-> "number", s |-> <<>>]
JsString(x) == [k |-> "string", s |-> x]

\* ToBoolean of a text-valued JSON value, as in `!text` and `x || text`.
TruthyText(v) == v.k = "number" \/ (v.k = "string" /\ v.s # <<>>)

\* ToBoolean of an atomic field value, as in `!target`, `source ? .. : ..`.
Truthy(v) == v \notin {Undefined, Null, ""}

\* String.prototype.trim: strips leading and trailing whitespace.
RECURSIVE TrimLeft(_)
TrimLeft(s) == IF s # <<>> /\ Head(s) = " " THEN TrimLeft(Tail(s)) ELSE s

RECURSIVE TrimRight(_)
TrimRight(s) ==
  IF s # <<>> /\ s[Len(s)] = " " THEN TrimRight(SubSeq(s, 1, Len(s) - 1)) ELSE s

trim(s) == TrimRight(TrimLeft(s))

\* encodeURIComponent: a letter is kept, a space becomes the escape %20.
RECURSIVE encodeURIComponent(_)
encodeURIComponent(s) ==
  IF s = <<>> THEN <<>>
  ELSE <<IF Head(s) = " " THEN "%20" ELSE Head(s)>> \o encodeURIComponent(Tail(s))

\* The object literal `languages` of the handler: its own properties.
TableNames ==
  {"Spanish", "French", "Mandarin", "German", "Portuguese", "Italian",
   "Japanese", "English"}

languages ==
  [n \in TableNames |->
     CASE n = "Spanish" -> "es"
       [] n = "French" -> "fr"
       [] n = "Mandarin" -> "zh-CN"
       [] n = "German" -> "de"
       [] n = "Portuguese" -> "pt"
       [] n = "Italian" -> "it"
       [] n = "Japanese" -> "ja"
       [] n = "English" -> "en"]

\* Properties every object literal inherits from Object.prototype, with the
\* text the inherited function takes when interpolated into the query string.
PrototypeNames == {"constructor", "toString"}

inherited ==
  [n \in PrototypeNames |->
     IF n = "constructor" THEN "function Object() { [native code] }"
     ELSE "function toString() { [native code] }"]

\* languages[name]: own property, else inherited property, else undefined.
lookup(name) ==
  IF name \in TableNames THEN languages[name]
  ELSE IF name \in PrototypeNames THEN inherited[name]
  ELSE Undefined

\* `languages[name] || name`, as used for targetLang and sourceLangCode.
resolveLang(name) == IF Truthy(lookup(name)) THEN lookup(name) ELSE name


\* Values the environment variables and the request body are drawn from.
Providers == {"gemini", "none", "openai"}

TextValues == {JsUndefined, JsNull} \cup {JsString(x) : x \in Texts}

TargetValues ==
  {"Spanish", "Mandarin", "English"} \cup PrototypeNames
    \cup {Undefined, Null, "", "fr"}

SourceValues == {Undefined, "", "Spanish", "constructor"}

RefineValues == {Undefined, Null, "true", "false"}

Bodies ==
  [text : TextValues, target : TargetValues, source : SourceValues,
   refine : RefineValues]

NoBody == [text |-> JsUndefined, target |-> Undefined, source |-> Undefined,
           refine |-> Undefined]

\* JSON bodies the Gemini endpoint can answer with: the literal null, or an
\* object whose candidates?.[0]?.content?.parts?.[0]?.text is `text`
\* (undefined when any link of the chain is missing).
GeminiData ==
  [json : {"null", "object"},
   text : {JsUndefined, JsNull, JsNumber} \cup {JsString(x) : x \in Texts}]

\* JSON bodies MyMemory can answer the language-pair probe with;
\* detectedLanguage is responseMetadata?.detectedLanguage.
DetectData ==
  [json : {"null", "object"},
   responseDetails :
     {Undefined, Null, "", "Language pair not supported",
      "ERROR: Language pair not supported (en|en)", "INVALID LANGUAGE PAIR",
      Number},
   detectedLanguage : {Undefined, Null, "", "es", "fr"}]

\* JSON bodies MyMemory can answer the translation with.
TranslateData ==
  {d \in [json : {"null", "primitive", "object"},
           responseData : {"absent", "null", "object"},
           translatedText : {Undefined, "", "hello"}] :
     /\ d.json # "object" => d.responseData = "absent"
     /\ d.responseData # "object" => d.translatedText = Undefined}

NoData == [json |-> "none", responseData |-> "absent", translatedText |-> Undefined]

VARIABLES
  AI_PROVIDER,       \* process.env.AI_PROVIDER || "gemini"
  GOOGLE_GEMINI_KEY, \* whether process.env.GOOGLE_GEMINI_KEY is set
  pc,                \* where the handler of the request is suspended
  req,               \* req.body
  refinedText,       \* let refinedText of the handler
  timeout,           \* the setTimeout of refineWithGemini
  refineLog,         \* what the refinement step last wrote to the console
  candidate,         \* data.candidates?.[0]?.content?.parts?.[0]?.text
  targetLang,
  sourceLangCode,
  calls,             \* the fetch calls issued, in order
  responses,         \* what was written to res, in order
  data,              \* const data = await translationResponse.json()
  thrown             \* err.message of the exception the handler's catch caught

vars ==
  <<AI_PROVIDER, GOOGLE_GEMINI_KEY, pc, req, refinedText, timeout, refineLog,
    candidate, targetLang, sourceLangCode, calls, responses, data, thrown>>

config == <<AI_PROVIDER, GOOGLE_GEMINI_KEY>>

\* What only the translation answer and the next request write.
kept == <<AI_PROVIDER, GOOGLE_GEMINI_KEY, data>>

Init ==
  /\ AI_PROVIDER \in Providers
  /\ GOOGLE_GEMINI_KEY \in BOOLEAN
  /\ pc = "idle"
  /\ req = NoBody
  /\ refinedText = <<>>
  /\ timeout = "none"
  /\ refineLog = "none"
  /\ candidate = JsUndefined
  /\ targetLang = Undefined
  /\ sourceLangCode = Undefined
  /\ calls = <<>>
  /\ responses = <<>>
  /\ data = NoData
  /\ thrown = Undefined

\* A fetch call: the endpoint, the text it carries and the language argument
\* (the prompt's language for Gemini, the langpair for MyMemory).
GeminiCall(text, language) ==
  [to |-> "gemini", q |-> text, src |-> language, tgt |-> Undefined]

MyMemoryCall(kind, text, src, tgt) ==
  [to |-> kind, q |-> encodeURIComponent(text), src |-> src, tgt |-> tgt]

\* The validation with the target test dropped.
missingField_textOnly(b) == ~TruthyText(b.text)

\* `if (!text || !target)`.
missingField(b) == ~TruthyText(b.text) \/ ~Truthy(b.target)

\* The refine flag ignored.
refineRequested_always(b) == TRUE

\* `req.body.refine !== false`.
refineRequested(b) == b.refine # "false"

\* The fallback trimmed like the refined text.
originalText_trimmed(text) == trim(text)

\* `return text` of refineWithGemini: no key, non-success status, catch.
originalText(text) == text

\* `data.candidates?.[0]?.content?.parts?.[0]?.text || text`.
refinedOr(cand, text) == IF TruthyText(cand) THEN cand ELSE JsString(text)

\* `detectData.responseDetails?.match(/Language pair not supported/)`.
matchesNotSupported(rd) ==
  rd \in {"Language pair not supported",
          "ERROR: Language pair not supported (en|en)"}

\* The detection ternary: "en" on the unsupported-pair answer, else the
\* detected language, else "en".
detectedCode(d) ==
  IF d.responseDetails \notin {Undefined, Null}
     /\ matchesNotSupported(d.responseDetails)
  THEN "en"
  ELSE IF Truthy(d.detectedLanguage) THEN d.detectedLanguage ELSE "en"


\* `data.responseData?.translatedText || "Error: no translation"`.
translationOf(d) ==
  IF d.json = "object" /\ d.responseData = "object" /\ Truthy(d.translatedText)
  THEN d.translatedText
  ELSE "Error: no translation"

\* res.status(400).json({ error: "Missing text or target" }); return.
BadRequest ==
  /\ responses' = Append(responses,
       [status |-> 400, key |-> "error", prefix |-> "",
        value |-> "Missing text or target"])
  /\ pc' = "done"
  /\ UNCHANGED <<refinedText, timeout, refineLog, candidate, targetLang,
                 sourceLangCode, calls, thrown>>

\* A catch that logs the exception and sends nothing.
Fail_silent(message) ==
  /\ thrown' = message
  /\ pc' = "done"
  /\ UNCHANGED responses

\* The handler's catch: res.status(500).json({ error: "Translation failed: " + err.message }).
Fail(message) ==
  /\ thrown' = message
  /\ responses' = Append(responses,
       [status |-> 500, key |-> "error", prefix |-> "Translation failed: ",
        value |-> message])
  /\ pc' = "done"

\* res.json({ translation }).
Succeed(translation) ==
  /\ responses' = Append(responses,
       [status |-> 200, key |-> "translation", prefix |-> "",
        value |-> translation])
  /\ pc' = "done"

\* The handler from the end of the refinement step to its next await: the
\* language resolution, then the detection fetch or the translation fetch.
\* b is req.body, rt the text the refinement step produced, cs the calls so far.
Resolve(b, rt, cs) ==
  LET tl == resolveLang(b.target)
      slc == IF Truthy(b.source) THEN resolveLang(b.source) ELSE Null
  IN /\ refinedText' = rt
     /\ targetLang' = tl
     /\ sourceLangCode' = slc
     /\ IF ~Truthy(slc)
        THEN /\ calls' = Append(cs, MyMemoryCall("detect", rt, "en", "en"))
             /\ pc' = "detect_fetch"
        ELSE /\ calls' = Append(cs, MyMemoryCall("translate", rt, slc, tl))
             /\ pc' = "translate_fetch"
     /\ UNCHANGED <<responses, thrown>>

\* POST /translate arrives: validation, then the refinement step up to the
\* Gemini fetch, or past it when refinement is off, not requested or keyless.
Receive ==
  /\ pc = "idle"
  /\ \E b \in Bodies :
       /\ req' = b
       /\ IF missingField(b)
          THEN BadRequest
          ELSE IF AI_PROVIDER # "none" /\ refineRequested(b)
               THEN IF AI_PROVIDER = "gemini"
                    THEN IF ~GOOGLE_GEMINI_KEY
                         THEN /\ refineLog' = "no_key"
                              /\ Resolve(b, originalText(b.text.s), calls)
                              /\ UNCHANGED <<timeout, candidate>>
                         ELSE /\ refineLog' = "sending"
                              /\ timeout' = "armed"
                              /\ calls' = Append(calls,
                                   GeminiCall(b.text.s,
                                     IF Truthy(b.source) THEN b.source ELSE "English"))
                              /\ pc' = "gemini_fetch"
                              /\ UNCHANGED <<refinedText, candidate, targetLang,
                                             sourceLangCode, responses, thrown>>
                    ELSE /\ refineLog' = "disabled"
                         /\ Resolve(b, b.text.s, calls)
                         /\ UNCHANGED <<timeout, candidate>>
               ELSE /\ Resolve(b, b.text.s, calls)
                    /\ UNCHANGED <<timeout, refineLog, candidate>>
  /\ UNCHANGED kept

\* The fetch to Gemini rejects (network error): the adapter's catch returns text.
GeminiFetchRejects ==
  /\ pc = "gemini_fetch"
  /\ refineLog' = "error"
  /\ Resolve(req, originalText(req.text.s), calls)
  /\ UNCHANGED <<kept, req, timeout, candidate>>

\* The 10 s timer fires: controller.abort().  A fetch still waiting for the
\* headers rejects with AbortError and the adapter's catch returns text; after
\* the adapter has left the fetch the abort has no effect.
AbortTimerFires ==
  /\ timeout = "armed"
  /\ timeout' = "fired"
  /\ IF pc = "gemini_fetch"
     THEN /\ refineLog' = "error"
          /\ Resolve(req, originalText(req.text.s), calls)
     ELSE UNCHANGED <<pc, refinedText, refineLog, targetLang, sourceLangCode,
                      calls, responses, thrown>>
  /\ UNCHANGED <<kept, req, candidate>>

\* The fetch to Gemini resolves with the response headers: clearTimeout, then
\* the adapter awaits response.text() (not ok) or response.json() (ok).
GeminiHeaders ==
  /\ pc = "gemini_fetch"
  /\ \E ok \in BOOLEAN :
       /\ pc' = IF ok THEN "gemini_json" ELSE "gemini_text"
       /\ refineLog' = IF ok THEN refineLog ELSE "http_error"
  /\ timeout' = IF timeout = "armed" THEN "cleared" ELSE timeout
  /\ UNCHANGED <<kept, req, refinedText, candidate, targetLang,
                 sourceLangCode, calls, responses, thrown>>

\* response.text() of a non-success answer settles: resolved, the adapter
\* returns text; rejected, its catch returns text.
GeminiErrorText ==
  /\ pc = "gemini_text"
  /\ \E resolved \in BOOLEAN :
       refineLog' = IF resolved THEN "http_error" ELSE "error"
  /\ Resolve(req, originalText(req.text.s), calls)
  /\ UNCHANGED <<kept, req, timeout, candidate>>

\* response.json() of a success answer rejects: the adapter's catch returns text.
GeminiJsonRejects ==
  /\ pc = "gemini_json"
  /\ refineLog' = "error"
  /\ Resolve(req, originalText(req.text.s), calls)
  /\ UNCHANGED <<kept, req, timeout, candidate>>

\* response.json() resolves with data: reading data.candidates of null and
\* calling trim on a non-string throw TypeError into the adapter's catch;
\* otherwise the adapter returns refined.trim().
GeminiJson ==
  /\ pc = "gemini_json"
  /\ \E d \in GeminiData :
       IF d.json = "null"
       THEN /\ refineLog' = "error"
            /\ Resolve(req, originalText(req.text.s), calls)
            /\ UNCHANGED candidate
       ELSE LET refined == refinedOr(d.text, req.text.s)
            IN /\ candidate' = d.text
               /\ IF refined.k # "string"
                  THEN /\ refineLog' = "error"
                       /\ Resolve(req, originalText(req.text.s), calls)
                  ELSE /\ refineLog' = "ok"
                       /\ Resolve(req, trim(refined.s), calls)
  /\ UNCHANGED <<kept, req, timeout>>


\* The detection fetch rejects: the exception reaches the handler's catch.
DetectFetchRejects ==
  /\ pc = "detect_fetch"
  /\ Fail("request to api.mymemory.translated.net failed")
  /\ UNCHANGED <<kept, req, refinedText, timeout, refineLog, candidate,
                 targetLang, sourceLangCode, calls>>

\* The detection fetch resolves: the handler awaits detectResponse.json().
DetectFetchResolves ==
  /\ pc = "detect_fetch"
  /\ pc' = "detect_json"
  /\ UNCHANGED <<kept, req, refinedText, timeout, refineLog, candidate,
                 targetLang, sourceLangCode, calls, responses, thrown>>

\* detectResponse.json() rejects: the body is not JSON.
DetectJsonRejects ==
  /\ pc = "detect_json"
  /\ Fail("invalid json response body")
  /\ UNCHANGED <<kept, req, refinedText, timeout, refineLog, candidate,
                 targetLang, sourceLangCode, calls>>

\* detectResponse.json() resolves with detectData: the source code is chosen
\* and the translation fetch issued.  Reading responseDetails of null, and
\* calling match on a responseDetails that is not a string, throw TypeError.
DetectJson ==
  /\ pc = "detect_json"
  /\ \E d \in DetectData :
       IF d.json = "null"
       THEN /\ Fail("Cannot read properties of null")
            /\ UNCHANGED <<sourceLangCode, calls>>
       ELSE IF d.responseDetails = Number
       THEN /\ Fail("detectData.responseDetails?.match is not a function")
            /\ UNCHANGED <<sourceLangCode, calls>>
       ELSE /\ sourceLangCode' = detectedCode(d)
            /\ calls' = Append(calls,
                 MyMemoryCall("translate", refinedText, detectedCode(d), targetLang))
            /\ pc' = "translate_fetch"
            /\ UNCHANGED <<responses, thrown>>
  /\ UNCHANGED <<kept, req, refinedText, timeout, refineLog, candidate,
                 targetLang>>

\* The translation fetch rejects.
TranslateFetchRejects ==
  /\ pc = "translate_fetch"
  /\ Fail("request to api.mymemory.translated.net failed")
  /\ UNCHANGED <<kept, req, refinedText, timeout, refineLog, candidate,
                 targetLang, sourceLangCode, calls>>

\* The translation fetch resolves: the handler awaits translationResponse.json().
TranslateFetchResolves ==
  /\ pc = "translate_fetch"
  /\ pc' = "translate_json"
  /\ UNCHANGED <<kept, req, refinedText, timeout, refineLog, candidate,
                 targetLang, sourceLangCode, calls, responses, thrown>>

\* translationResponse.json() rejects.
TranslateJsonRejects ==
  /\ pc = "translate_json"
  /\ Fail("invalid json response body")
  /\ UNCHANGED <<kept, req, refinedText, timeout, refineLog, candidate,
                 targetLang, sourceLangCode, calls>>

\* translationResponse.json() resolves with data: reading responseData of
\* null throws TypeError; otherwise the handler answers 200.
TranslateJson ==
  /\ pc = "translate_json"
  /\ \E d \in TranslateData :
       /\ data' = d
       /\ IF d.json = "null"
          THEN Fail("Cannot read properties of null")
          ELSE /\ Succeed(translationOf(d))
               /\ UNCHANGED thrown
  /\ UNCHANGED <<config, req, refinedText, timeout, refineLog, candidate,
                 targetLang, sourceLangCode, calls>>

\* The response has been sent; the next request starts from a fresh handler
\* invocation (every local of the handler is per request).
NextRequest ==
  /\ pc = "done"
  /\ pc' = "idle"
  /\ req' = NoBody
  /\ refinedText' = <<>>
  /\ timeout' = "none"
  /\ refineLog' = "none"
  /\ candidate' = JsUndefined
  /\ targetLang' = Undefined
  /\ sourceLangCode' = Undefined
  /\ calls' = <<>>
  /\ responses' = <<>>
  /\ data' = NoData
  /\ thrown' = Undefined
  /\ UNCHANGED config

Next ==
  \/ Receive
  \/ GeminiFetchRejects
  \/ AbortTimerFires
  \/ GeminiHeaders
  \/ GeminiErrorText
  \/ GeminiJsonRejects
  \/ GeminiJson
  \/ DetectFetchRejects
  \/ DetectFetchResolves
  \/ DetectJsonRejects
  \/ DetectJson
  \/ TranslateFetchRejects
  \/ TranslateFetchResolves
  \/ TranslateJsonRejects
  \/ TranslateJson
  \/ NextRequest

Spec == Init /\ [][Next]_vars

\* The timer of setTimeout fires once its delay has passed; nothing obliges a
\* provider to answer.
FairSpec == Spec /\ WF_vars(AbortTimerFires)


(***************************************************************************)
(* The properties.                                                         *)
(***************************************************************************)

\* The request of the state, in the claims' words.
textUsable == req.text.k = "string" /\ req.text.s # <<>>

targetUsable == req.target \notin {Undefined, Null, ""}

sourceSupplied == req.source \notin {Undefined, Null, ""}

arrived == pc # "idle"

CallsTo(kinds) == {i \in 1..Len(calls) : calls[i].to \in kinds}

\* Name resolution as the specification words it: the table's code for a
\* name of the table, the name itself for anything else.
tableCode(name) == IF name \in TableNames THEN languages[name] ELSE name

\* C1: a request without a usable text or without a usable target is answered
\* 400 with an error body, and no call to Gemini, no detection call and no
\* translation call is issued for it, before or after the response.
C1_MissingFieldRejected ==
  (arrived /\ (~textUsable \/ ~targetUsable)) =>
    /\ calls = <<>>
    /\ pc = "done"
    /\ Len(responses) = 1
    /\ responses[1].status = 400
    /\ responses[1].key = "error"

C1_Witness ==
  /\ pc = "done"
  /\ textUsable
  /\ req.target = Null
  /\ req.refine = Undefined
  /\ AI_PROVIDER = "gemini"
  /\ GOOGLE_GEMINI_KEY
  /\ Len(responses) = 1
  /\ responses[1].status = 400

\* C2: Gemini is called only if AI_PROVIDER is "gemini", the key is set and
\* refine is not false; in every other case each call to MyMemory carries the
\* request's text, character for character.
C2_RefinementOnlyWhenEnabled ==
  LET enabled ==
        AI_PROVIDER = "gemini" /\ GOOGLE_GEMINI_KEY /\ req.refine # "false"
  IN /\ CallsTo({"gemini"}) # {} => enabled
     /\ ~enabled =>
          \A i \in CallsTo({"detect", "translate"}) :
            calls[i].q = encodeURIComponent(req.text.s)

C2_Witness ==
  /\ AI_PROVIDER = "gemini"
  /\ GOOGLE_GEMINI_KEY
  /\ req.refine = "false"
  /\ req.text = JsString(<<" ", "a">>)
  /\ CallsTo({"translate"}) # {}
  /\ \A i \in CallsTo({"translate"}) : calls[i].q = <<"%20", "a">>

\* The refinement call of the request has failed: the adapter logged a
\* non-success status or an exception and has returned.
refinementFailed ==
  refineLog \in {"error", "http_error"} /\ pc \notin {"gemini_text"}

\* The exceptions the MyMemory calls throw into the handler's catch.
MyMemoryErrors ==
  {"request to api.mymemory.translated.net failed", "invalid json response body",
   "Cannot read properties of null",
   "detectData.responseDetails?.match is not a function"}

\* C3: when the refinement call fails (fetch rejected, aborted by the timer,
\* non-success status, body unreadable) the handler goes on to MyMemory with
\* the request's original text, and a 500 for such a request comes from a
\* MyMemory call, never from the refinement failure.
C3_RefinementFailureNotFatal ==
  refinementFailed =>
    /\ refinedText = req.text.s
    /\ Len(calls) >= 2
    /\ calls[1].to = "gemini"
    /\ calls[2].to \in {"detect", "translate"}
    /\ \A i \in CallsTo({"detect", "translate"}) :
         calls[i].q = encodeURIComponent(req.text.s)
    /\ \A j \in 1..Len(responses) :
         responses[j].status # 200 =>
           /\ responses[j].status = 500
           /\ thrown \in MyMemoryErrors
           /\ pc = "done"

C3_Witness ==
  /\ refinementFailed
  /\ timeout = "fired"
  /\ req.text = JsString(<<" ", "a">>)
  /\ sourceSupplied
  /\ pc = "done"
  /\ responses[1].status = 200
  /\ calls[2] = MyMemoryCall("translate", <<" ", "a">>, "es", "en")

\* C4: for a request with text and target, no outcome of the refinement call
\* and no outcome of the detection call keeps the translation call from being
\* issued, so a non-200 answer to such a request can only come after it.
C4_DetectionNeverBlocks ==
  (pc = "done" /\ textUsable /\ targetUsable) => CallsTo({"translate"}) # {}

\* C5: every parsed translation answer without a non-empty translated text
\* gives 200 with "Error: no translation"; one with it gives 200 with that
\* text unchanged.
C5_MissingTranslationMarker ==
  (pc = "done" /\ data # NoData) =>
    /\ Len(responses) = 1
    /\ responses[1].status = 200
    /\ responses[1].key = "translation"
    /\ responses[1].value =
         IF data.translatedText \notin {Undefined, Null, ""}
         THEN data.translatedText
         ELSE "Error: no translation"

\* C6: the resolved target, and the resolved source when one is supplied, is
\* the table's code for a name of the table and the input itself otherwise.
C6_ResolutionByTable ==
  (targetLang # Undefined) =>
    /\ targetLang = tableCode(req.target)
    /\ sourceSupplied => sourceLangCode = tableCode(req.source)

\* The adapter refineWithGemini has run for the request and has returned.
adapterReturned ==
  /\ refineLog \in {"no_key", "error", "http_error", "ok"}
  /\ pc \notin {"gemini_fetch", "gemini_text", "gemini_json"}

candidateUsable == candidate.k = "string" /\ candidate.s # <<>>

\* C7: refineWithGemini returns the provider's polished text or the input
\* text unchanged; without a non-empty first candidate text it returns the
\* input exactly, whitespace included; it never returns the empty string.
C7_AdapterReturnsPolishedOrOriginal ==
  adapterReturned =>
    /\ refinedText # <<>>
    /\ \/ refinedText = req.text.s
       \/ /\ refineLog = "ok"
          /\ candidateUsable
          /\ refinedText \in {candidate.s, trim(candidate.s)}
    /\ (refineLog # "ok" \/ ~candidateUsable) => refinedText = req.text.s

inRefinement == pc \in {"gemini_fetch", "gemini_text", "gemini_json"}

\* C8: with the timer fair, a request that enters the refinement step
\* leaves it, whether or not Gemini ever finishes answering.
C8_RefinementBounded == inRefinement ~> ~inRefinement

\* C9: the refinement step is over before any MyMemory call; with a source
\* supplied there is no detection call and the langpair is the resolved
\* source and target; without one, exactly one detection call precedes the
\* translation call, the source code is the detected language or "en", and
\* both calls carry the same text.
C9_CallOrderAndArguments ==
  /\ CallsTo({"detect", "translate"}) # {} => ~inRefinement
  /\ \A i \in CallsTo({"gemini"}) : \A j \in CallsTo({"detect", "translate"}) : i < j
  /\ Cardinality(CallsTo({"translate"})) <= 1
  /\ \A t \in CallsTo({"translate"}) :
       /\ calls[t].tgt = tableCode(req.target)
       /\ calls[t].q = encodeURIComponent(refinedText)
       /\ IF sourceSupplied
          THEN /\ CallsTo({"detect"}) = {}
               /\ calls[t].src = tableCode(req.source)
          ELSE /\ CallsTo({"detect"}) = {t - 1}
               /\ calls[t - 1].q = calls[t].q
               /\ calls[t].src \in {"en", "es", "fr"}
               /\ calls[t].src = sourceLangCode

\* C10: the request is answered exactly once, with 200, 400 or 500, as soon
\* as no provider call is pending; a 500 carries the exception's message; no
\* provider call is issued once the response is sent.
C10_Answered ==
  /\ Len(responses) <= 1
  /\ (pc = "done") <=> (Len(responses) = 1)
  /\ pc \in {"idle", "done"} \/ calls # <<>>
  /\ \A j \in 1..Len(responses) :
       /\ responses[j].status \in {200, 400, 500}
       /\ responses[j].status = 500 =>
            /\ responses[j].key = "error"
            /\ responses[j].prefix = "Translation failed: "
            /\ thrown # Undefined
            /\ responses[j].value = thrown

C10_AnsweredExactlyOnce ==
  /\ []C10_Answered
  /\ [][responses # <<>> => (calls' = calls \/ calls' = <<>>)]_vars

C10_Witness ==
  /\ pc = "done"
  /\ Len(responses) = 1
  /\ responses[1].status = 500
  /\ responses[1].value = "invalid json response body"
  /\ CallsTo({"gemini"}) # {}
  /\ CallsTo({"detect"}) # {}
  /\ CallsTo({"translate"}) # {}

====
